---- MODULE Spec2Model ----
(***************************************************************************)
(* FITDetectorToolkit: the module lifecycle of ModuleManager               *)
(* (install_module, is_module_installed, launch_module) over the on-disk   *)
(* modules directory, driven by the GUI (FITDetectorToolkit) and by direct *)
(* callers (the command line, the tests).                                  *)
(***************************************************************************)
EXTENDS Integers, Sequences, FiniteSets, TLC

(* ------------------------------ bounds --------------------------------- *)

\* number of calls of the manager (install_module and launch_module together)
MaxCalls == 2

(* ------------------------------ universe ------------------------------- *)

\* keys of the catalog self.modules
CatalogIds == {"A", "B"}

\* a module id that is no key of the catalog
UnknownIds == {"Z"}

Ids == CatalogIds \cup UnknownIds

\* a name under modules_dir that is no module id
OtherPaths == {".old"}

Paths == Ids \cup OtherPaths

BuildFiles == {"pyproject.toml", "setup.py"}

Threads == 1..MaxCalls

(* --------------------------- descriptors ------------------------------- *)

\* a descriptor is a JSON object: the keys it has, and the value of entry_point
FullDesc == [keys |-> {"url", "branch", "entry_point"}, entry_point |-> "pkg.main"]

NoEntryDesc == [keys |-> {"url", "branch"}, entry_point |-> ""]

EmptyEntryDesc == [keys |-> {"url", "branch", "entry_point"}, entry_point |-> ""]

NoUrlDesc == [keys |-> {"branch", "entry_point"}, entry_point |-> "pkg.main"]

EmptyDesc == [keys |-> {}, entry_point |-> ""]

DescShapes == {FullDesc, NoEntryDesc, EmptyEntryDesc, NoUrlDesc, EmptyDesc}

\* module_info.get("entry_point", "")
GetEntryPoint(info) == IF "entry_point" \in info.keys THEN info.entry_point ELSE ""

(* ----------------------------- filesystem ------------------------------ *)

NoDir == [exists |-> FALSE, repo |-> "none", gen |-> 0, files |-> {}]

\* a directory an earlier session installed
StaleDir(p) == [exists |-> TRUE, repo |-> p, gen |-> 0, files |-> {"pyproject.toml"}]

\* faulty variant of ModulePath: every module shares one directory
ModulePathShared(name) == "A"

\* self.modules_dir / module_name
ModulePath(name) == name

\* faulty variant of RemoveTree: the old tree is moved aside, not deleted
RemoveTreeKeepOld(f, p) == [f EXCEPT ![p] = NoDir, ![".old"] = f[p]]

\* faulty variant of RemoveTree: nothing is removed
RemoveTreeNothing(f, p) == f

\* shutil.rmtree(module_path)
RemoveTree(f, p) == [f EXCEPT ![p] = NoDir]

\* the tree a clone of repository `repo` writes; g names the call that cloned
ClonedDir(repo, g, files) == [exists |-> TRUE, repo |-> repo, gen |-> g, files |-> files]

VARIABLES
    modules,      \* the catalog: id -> descriptor
    fs,           \* modules_dir: path -> directory
    registry,     \* ids whose package the installer registered
    inst,         \* the install_module calls
    launch,       \* the launch_module call in progress
    launches,     \* launch_module calls made
    cards,        \* the rendered cards: id -> installed, as last rendered
    refreshDue,   \* refresh_ui callbacks scheduled with root.after and not yet run
    status,       \* the status text of the window (status_var)
    afterQ,       \* status texts posted with root.after(0, ...) and not yet set
    cli,          \* the run of main() with --install or --launch
    config,       \* the configuration sources and the calls that load and save
    query         \* the last direct call of is_module_installed and its result

managerVars == <<modules, fs, registry, inst, launch, launches, cards, refreshDue>>

shellVars == <<status, afterQ, cli, config, query>>

vars == <<modules, fs, registry, inst, launch, launches, cards, refreshDue,
          status, afterQ, cli, config, query>>

(* ------------------------- is_module_installed ------------------------- *)

\* `try: import importlib; return True`: the import of importlib never raises,
\* so the except ImportError branch (importlib.metadata.distribution) is dead
ImportProbe(reg, name) == TRUE

\* faulty variant of IsModuleInstalled: the persisted "installed" flag decides
IsModuleInstalledByFlag(mods, f, reg, name) ==
    IF name \notin DOMAIN mods THEN FALSE
    ELSE IF "installed" \in mods[name].keys THEN mods[name].installed
    ELSE FALSE

IsModuleInstalled(mods, f, reg, name) ==
    IF name \notin DOMAIN mods THEN FALSE
    ELSE IF mods[name].keys = {} THEN FALSE
    ELSE IF ~f[ModulePath(name)].exists THEN FALSE
    ELSE IF GetEntryPoint(mods[name]) = "" THEN FALSE
    ELSE ImportProbe(reg, name)

(* ---------------------------- install_module --------------------------- *)

\* a call not begun; gen is the clone the call wrote (-1: none), old the tree
\* it removed (-1: none), concur whether a call for the same id was running
\* when it began
IdleCall == [pc |-> "idle", name |-> "none", src |-> "none", was |-> FALSE,
             ret |-> "none", exc |-> "none", gen |-> -1, old |-> -1,
             concur |-> FALSE]

\* faulty variant of InstallExcept: only the clone's exception is caught
InstallExceptNarrow(exc) == IF exc = "GitCommandError" THEN "False" ELSE "raised"

\* `except Exception as e: ... return False`
InstallExcept(exc) == "False"

\* call t is running
Active(t) == inst[t].pc \notin {"idle", "done"}

\* an exception inside the try block ends the call through the handler
Raise(t, exc) ==
    inst' = [inst EXCEPT ![t].pc = "done", ![t].exc = exc, ![t].ret = InstallExcept(exc)]

\* calls of the manager begun so far
CallsMade == launches + Cardinality({t \in Threads : inst[t].pc # "idle"})

\* faulty variant of UiFree: the launch runs in a thread of its own
\* (launch_thread, defined at lines 672-689 and never started)
UiFreeAlways == TRUE

\* FITDetectorToolkit.launch_module runs the manager call on the UI thread:
\* until it returns, the event loop handles no click and runs no callback
UiFree == ~(launch.src = "gui" /\ launch.pc \in {"check", "spawn", "fallback"})

\* a caller starts install: the Install/Update button of a card (lines 544, 564:
\* never disabled) starts install_thread; an id outside the catalog has no card
\* and reaches the manager from a direct caller. Both callers begin with
\* was_installed = is_module_installed(module_name)
StartInstall(t, name, src) ==
    /\ inst[t].pc = "idle"
    /\ \A u \in Threads : u < t => inst[u].pc # "idle"
    /\ CallsMade < MaxCalls
    /\ (src = "gui") <=> (name \in DOMAIN modules)
    /\ src = "gui" => UiFree
    /\ inst' = [inst EXCEPT ![t] = [IdleCall EXCEPT
                   !.pc = "lookup", !.name = name, !.src = src,
                   !.was = IsModuleInstalled(modules, fs, registry, name),
                   !.concur = \E u \in Threads : u # t /\ Active(u) /\ inst[u].name = name]]
    /\ UNCHANGED <<modules, fs, registry, launch, launches, cards, refreshDue>>

\* faulty variant of InstallLookup: the directory is tested before the
\* catalog is read, so an id outside the catalog reaches the removal
InstallLookupLate(t) ==
    /\ inst[t].pc = "lookup"
    /\ IF fs[ModulePath(inst[t].name)].exists
       THEN inst' = [inst EXCEPT ![t].pc = "rmtree"]
       ELSE IF inst[t].name \notin DOMAIN modules
       THEN Raise(t, "KeyError")
       ELSE inst' = [inst EXCEPT ![t].pc = "clone"]
    /\ UNCHANGED <<modules, fs, registry, launch, launches, cards, refreshDue>>

\* module_info = self.modules[module_name]; if module_path.exists():
InstallLookup(t) ==
    /\ inst[t].pc = "lookup"
    /\ IF inst[t].name \notin DOMAIN modules
       THEN Raise(t, "KeyError")
       ELSE inst' = [inst EXCEPT ![t].pc =
                        IF fs[ModulePath(inst[t].name)].exists THEN "rmtree" ELSE "clone"]
    /\ UNCHANGED <<modules, fs, registry, launch, launches, cards, refreshDue>>

\* shutil.rmtree(module_path)
InstallRmtree(t) ==
    /\ inst[t].pc = "rmtree"
    /\ IF ~fs[ModulePath(inst[t].name)].exists
       THEN /\ Raise(t, "FileNotFoundError")
            /\ UNCHANGED fs
       ELSE /\ fs' = RemoveTree(fs, ModulePath(inst[t].name))
            /\ inst' = [inst EXCEPT ![t].pc = "clone",
                                    ![t].old = fs[ModulePath(inst[t].name)].gen]
    /\ UNCHANGED <<modules, registry, launch, launches, cards, refreshDue>>

\* Repo.clone_from(module_info["url"], module_path, branch=module_info["branch"])
InstallClone(t) ==
    /\ inst[t].pc = "clone"
    /\ LET name == inst[t].name
           p == ModulePath(name)
       IN IF ~({"url", "branch"} \subseteq modules[name].keys)
          THEN /\ Raise(t, "KeyError")
               /\ UNCHANGED fs
          ELSE IF fs[p].exists
          THEN \* git refuses a destination that exists and is not empty
               /\ Raise(t, "GitCommandError")
               /\ UNCHANGED fs
          ELSE \/ \E files \in SUBSET BuildFiles :
                     /\ fs' = [fs EXCEPT ![p] = ClonedDir(name, t, files)]
                     /\ inst' = [inst EXCEPT ![t].pc = "check", ![t].gen = t]
               \/ \* the clone fails and leaves nothing
                  /\ Raise(t, "GitCommandError")
                  /\ UNCHANGED fs
               \/ \* the clone fails and leaves a partial tree
                  /\ fs' = [fs EXCEPT ![p] = ClonedDir(name, t, {})]
                  /\ inst' = [inst EXCEPT ![t].pc = "done", ![t].exc = "GitCommandError",
                                          ![t].ret = InstallExcept("GitCommandError"),
                                          ![t].gen = t]
    /\ UNCHANGED <<modules, registry, launch, launches, cards, refreshDue>>

\* faulty variant of HasBuildDescriptor: the detection accepts every tree
HasBuildDescriptorAlways(d) == TRUE

\* if not pyproject_toml.exists() and not setup_py.exists(): raise FileNotFoundError
HasBuildDescriptor(d) == d.exists /\ d.files \cap BuildFiles # {}

InstallCheck(t) ==
    /\ inst[t].pc = "check"
    /\ IF HasBuildDescriptor(fs[ModulePath(inst[t].name)])
       THEN inst' = [inst EXCEPT ![t].pc = "pip"]
       ELSE Raise(t, "FileNotFoundError")
    /\ UNCHANGED <<modules, fs, registry, launch, launches, cards, refreshDue>>

\* subprocess.run([sys.executable, "-m", "pip", "install", "-e", path], check=True)
InstallPip(t) ==
    /\ inst[t].pc = "pip"
    /\ \/ /\ fs[ModulePath(inst[t].name)].exists
          /\ registry' = registry \cup {inst[t].name}
          /\ inst' = [inst EXCEPT ![t].pc = "done", ![t].ret = "True"]
          \* if success: ... self.root.after(100, self.refresh_ui)
          /\ refreshDue' = IF inst[t].src = "gui" THEN refreshDue + 1 ELSE refreshDue
       \/ /\ Raise(t, "CalledProcessError")
          /\ UNCHANGED <<registry, refreshDue>>
    /\ UNCHANGED <<modules, fs, launch, launches, cards>>

Install(t) ==
    \/ InstallLookup(t)
    \/ InstallRmtree(t)
    \/ InstallClone(t)
    \/ InstallCheck(t)
    \/ InstallPip(t)

(* ---------------------------- launch_module ---------------------------- *)

\* a call not begun; popen counts the calls of subprocess.Popen, started the
\* processes they started, checked is the result of the installed check
IdleLaunch == [pc |-> "idle", name |-> "none", src |-> "none", checked |-> FALSE,
               popen |-> 0, started |-> 0, ret |-> "none", msg |-> "none",
               dirAtSpawn |-> TRUE]

\* `except Exception as e: return False, f"Error launching module: {e}"`
LaunchExcept(exc) == [ret |-> "False", msg |-> "Error launching module"]

LaunchDone(r) == launch' = [launch EXCEPT !.pc = "done", !.ret = r.ret, !.msg = r.msg]

\* a caller starts launch: the Launch button of a card (disabled on a card
\* rendered as not installed, line 577), or a direct call of the manager
StartLaunch(name, src) ==
    /\ launch.pc \in {"idle", "done"}
    /\ CallsMade < MaxCalls
    /\ src = "gui" => (name \in DOMAIN modules /\ cards[name] /\ UiFree)
    /\ launch' = [IdleLaunch EXCEPT !.pc = "check", !.name = name, !.src = src]
    /\ launches' = launches + 1
    /\ UNCHANGED <<modules, fs, registry, inst, cards, refreshDue>>

\* faulty variant of LaunchGate: the early return is missing
LaunchGateOpen(installed) == "spawn"

\* `if not self.is_module_installed(module_name): return False, ...`: where the
\* call goes after the check
LaunchGate(installed) == IF installed THEN "spawn" ELSE "done"

\* module_info = self.modules[module_name]; if not self.is_module_installed(...)
LaunchCheck ==
    /\ launch.pc = "check"
    /\ IF launch.name \notin DOMAIN modules
       THEN LaunchDone(LaunchExcept("KeyError"))
       ELSE LET installed == IsModuleInstalled(modules, fs, registry, launch.name)
            IN IF LaunchGate(installed) = "done"
               THEN launch' = [launch EXCEPT !.pc = "done", !.checked = installed,
                                             !.ret = "False", !.msg = "Module not installed"]
               ELSE launch' = [launch EXCEPT !.pc = "spawn", !.checked = installed]
    /\ UNCHANGED <<modules, fs, registry, inst, launches, cards, refreshDue>>

\* faulty variant of LaunchSpawn: the return after the first spawn is missing,
\* so a launch that started its process goes on to the fallback
LaunchSpawnNoReturn ==
    /\ launch.pc = "spawn"
    /\ \/ launch' = [launch EXCEPT !.pc = "fallback", !.popen = @ + 1, !.started = @ + 1]
       \/ launch' = [launch EXCEPT !.pc = "fallback", !.popen = @ + 1]
    /\ UNCHANGED <<modules, fs, registry, inst, launches, cards, refreshDue>>

\* subprocess.Popen([sys.executable, "-m", entry_point]), or Popen of the directory
LaunchSpawn ==
    /\ launch.pc = "spawn"
    /\ LET here == fs[ModulePath(launch.name)].exists
       IN \/ launch' = [launch EXCEPT !.pc = "done", !.popen = @ + 1, !.started = @ + 1,
                                      !.dirAtSpawn = here,
                                      !.ret = "True", !.msg = "Module launched successfully"]
          \/ IF "entry_point" \in modules[launch.name].keys
             THEN launch' = [launch EXCEPT !.pc = "fallback", !.popen = @ + 1]
             ELSE launch' = [launch EXCEPT !.pc = "done", !.popen = @ + 1,
                                           !.ret = LaunchExcept("OSError").ret,
                                           !.msg = LaunchExcept("OSError").msg]
    /\ UNCHANGED <<modules, fs, registry, inst, launches, cards, refreshDue>>

\* importlib.import_module(entry_point); hasattr(module, "main"); Popen(["-c", cmd])
LaunchFallback ==
    /\ launch.pc = "fallback"
    /\ LET here == fs[ModulePath(launch.name)].exists
       IN \/ LaunchDone([ret |-> "False", msg |-> "Error importing module"])
          \/ LaunchDone([ret |-> "False", msg |-> "No main function found in module"])
          \/ launch' = [launch EXCEPT !.pc = "done", !.popen = @ + 1, !.started = @ + 1,
                                      !.dirAtSpawn = here,
                                      !.ret = "True", !.msg = "Module launched successfully"]
          \/ launch' = [launch EXCEPT !.pc = "done", !.popen = @ + 1,
                                      !.ret = "False", !.msg = "Error importing module"]
    /\ UNCHANGED <<modules, fs, registry, inst, launches, cards, refreshDue>>

Launch ==
    \/ LaunchCheck
    \/ LaunchSpawn
    \/ LaunchFallback

(* -------------------------------- GUI ---------------------------------- *)

\* _create_app_launcher_section: one card per catalog entry, "installed" from
\* is_module_installed
RenderCards(mods, f, reg) == [x \in DOMAIN mods |-> IsModuleInstalled(mods, f, reg, x)]

\* faulty variant of RefreshUi: the refresh loads the default catalog again
RefreshUiReload ==
    /\ UiFree
    /\ refreshDue > 0
    /\ refreshDue' = refreshDue - 1
    /\ modules' = [x \in CatalogIds |-> FullDesc]
    /\ cards' = RenderCards(modules', fs, registry)
    /\ UNCHANGED <<fs, registry, inst, launch, launches>>

\* refresh_ui, run by the event loop when its timer is due
RefreshUi ==
    /\ UiFree
    /\ refreshDue > 0
    /\ refreshDue' = refreshDue - 1
    /\ cards' = RenderCards(modules, fs, registry)
    /\ UNCHANGED <<modules, fs, registry, inst, launch, launches>>

(* ------------------------ status, command line ------------------------- *)

\* self.status_var.set("Ready")
Ready == [kind |-> "Ready", name |-> "none"]

\* main() not started
IdleCli == [pc |-> "idle", cmd |-> "none", name |-> "none", was |-> FALSE,
            out |-> <<>>, exit |-> -1, calls |-> 0, runs |-> 0]

\* is_module_installed not called directly yet
NoQuery == [name |-> "none", result |-> FALSE, asked |-> 0]

(* ---------------------------- specification ---------------------------- *)

\* the catalogs load_modules_config may load: "B" is the default descriptor,
\* "A" takes every descriptor shape
Catalogs == {[x \in CatalogIds |-> IF x = "A" THEN d ELSE FullDesc] : d \in DescShapes}

\* modules_dir at start: empty, or holding what an earlier session left
InitialTrees == {[p \in Paths |-> IF p \in S THEN StaleDir(p) ELSE NoDir] : S \in {{}, {"A", "Z"}}}

Init ==
    /\ modules \in Catalogs
    /\ fs \in InitialTrees
    /\ registry = {p \in CatalogIds : fs[p].exists}
    /\ inst = [t \in Threads |-> IdleCall]
    /\ launch = IdleLaunch
    /\ launches = 0
    /\ cards = RenderCards(modules, fs, registry)
    /\ refreshDue = 0
    /\ status = Ready
    /\ afterQ = <<>>
    /\ cli = IdleCli
    /\ config = [readable |-> TRUE, packaged |-> modules, file |-> FALSE,
                 loads |-> 0, saves |-> 0]
    /\ query = NoQuery

\* the manager and the cards; the status text, the command line and the
\* configuration calls stand still
Next ==
    \/ \E t \in Threads, name \in Ids, src \in {"gui", "api"} :
           StartInstall(t, name, src) /\ UNCHANGED shellVars
    \/ \E t \in Threads : InstallLookup(t) /\ UNCHANGED shellVars
    \/ \E t \in Threads : InstallRmtree(t) /\ UNCHANGED shellVars
    \/ \E t \in Threads : InstallClone(t) /\ UNCHANGED shellVars
    \/ \E t \in Threads : InstallCheck(t) /\ UNCHANGED shellVars
    \/ \E t \in Threads : InstallPip(t) /\ UNCHANGED shellVars
    \/ \E name \in Ids, src \in {"gui", "api"} :
           StartLaunch(name, src) /\ UNCHANGED shellVars
    \/ LaunchCheck /\ UNCHANGED shellVars
    \/ LaunchSpawn /\ UNCHANGED shellVars
    \/ LaunchFallback /\ UNCHANGED shellVars
    \/ RefreshUi /\ UNCHANGED shellVars

Spec == Init /\ [][Next]_vars

(* --------------------------- the GUI window ---------------------------- *)

\* a status text: its wording and the module it names
Msg(kind, name) == [kind |-> kind, name |-> name]

\* faulty variant of StartMessage: was_installed is not consulted
StartMessageFixed(was) == "Installing"

\* `if was_installed:` "Updating X..." `else:` "Installing X..."
StartMessage(was) == IF was THEN "Updating" ELSE "Installing"

\* install_thread after the manager returned: "X updated successfully!" or
\* "X installed successfully!" by was_installed, "Failed to install X" for
\* False, "Error during installation" from the except
EndMessageGui(was, ret) ==
    IF ret = "True" THEN (IF was THEN "updated" ELSE "installed")
    ELSE IF ret = "False" THEN "Failed to install"
    ELSE "Error during installation"

\* launch_module of the window after the manager returned
LaunchMessage(ret) ==
    IF ret = "True" THEN "launched"
    ELSE IF ret = "False" THEN "Failed to launch"
    ELSE "Error during launch"

\* install_thread posts its terminal status when the manager call returns
PostEnd(t) ==
    afterQ' = IF inst'[t].pc = "done"
              THEN Append(afterQ, Msg(EndMessageGui(inst[t].was, inst'[t].ret), inst[t].name))
              ELSE afterQ

\* a click on Install or Update: the thread reads was_installed, posts the
\* starting status and calls the manager
GuiStartInstall(t, name) ==
    /\ cli.pc \in {"idle", "exited"}
    /\ StartInstall(t, name, "gui")
    /\ afterQ' = Append(afterQ, Msg(StartMessage(inst'[t].was), name))
    /\ UNCHANGED <<status, cli, config, query>>

\* a step of the manager call of install thread t
GuiInstall(t) ==
    /\ inst[t].src = "gui"
    /\ Install(t)
    /\ PostEnd(t)
    /\ UNCHANGED <<status, cli, config, query>>

\* the event loop runs the oldest root.after(0, ...) callback
RunAfter ==
    /\ UiFree
    /\ afterQ # <<>>
    /\ status' = Head(afterQ)
    /\ afterQ' = Tail(afterQ)
    /\ UNCHANGED <<cli, config, query>>
    /\ UNCHANGED managerVars

\* a click on Launch: status "Launching X...", then the manager call
GuiStartLaunch(name) ==
    /\ cli.pc \in {"idle", "exited"}
    /\ StartLaunch(name, "gui")
    /\ status' = Msg("Launching", name)
    /\ UNCHANGED <<afterQ, cli, config, query>>

\* a step of the manager call of the launch; when it returns the window sets
\* the terminal status
GuiLaunch ==
    /\ launch.src = "gui"
    /\ Launch
    /\ status' = IF launch'.pc = "done"
                 THEN Msg(LaunchMessage(launch'.ret), launch.name)
                 ELSE status
    /\ UNCHANGED <<afterQ, cli, config, query>>

GuiRefreshUi == RefreshUi /\ UNCHANGED shellVars

NextGui ==
    \/ \E t \in Threads, name \in DOMAIN modules : GuiStartInstall(t, name)
    \/ \E t \in Threads : GuiInstall(t)
    \/ RunAfter
    \/ \E name \in DOMAIN modules : GuiStartLaunch(name)
    \/ GuiLaunch
    \/ GuiRefreshUi

\* the window starts with a catalog of one complete descriptor (as the
\* hardcoded default is) over an empty or a used modules_dir
InitGui ==
    /\ modules = [x \in {"A"} |-> FullDesc]
    /\ fs \in InitialTrees
    /\ registry = {p \in CatalogIds : fs[p].exists}
    /\ inst = [t \in Threads |-> IdleCall]
    /\ launch = IdleLaunch
    /\ launches = 0
    /\ cards = RenderCards(modules, fs, registry)
    /\ refreshDue = 0
    /\ status = Ready
    /\ afterQ = <<>>
    /\ cli = IdleCli
    /\ config = [readable |-> TRUE, packaged |-> modules, file |-> FALSE,
                 loads |-> 0, saves |-> 0]
    /\ query = NoQuery

\* the window: install threads, the launch on the UI thread, the status text
SpecGui == InitGui /\ [][NextGui]_vars

(* -------------------------- the command line --------------------------- *)

\* main() with --install after the manager returned: "updated" / "installed"
\* for success, "Failed to update" / "Failed to install" otherwise, by
\* was_installed
EndMessageCli(was, ret) ==
    IF ret = "True" THEN (IF was THEN "updated" ELSE "installed")
    ELSE (IF was THEN "Failed to update" ELSE "Failed to install")

\* faulty variant of CliExit: the exit status tells the result
CliExitByResult(ret) == IF ret = "True" THEN 0 ELSE 1

\* the exit status of main(): every branch ends in a bare `return`; only an
\* exception that leaves the manager would end the process with status 1
CliExit(ret) == IF ret \in {"True", "False"} THEN 0 ELSE 1

\* one process runs at a time, and the terminal is used while the window, if
\* one is open, is at rest
CliReady ==
    /\ cli.pc \in {"idle", "exited"}
    /\ cli.runs < MaxCalls
    /\ launch.pc \in {"idle", "done"}
    /\ \A t \in Threads : ~Active(t)
    /\ afterQ = <<>>

\* main() with --install name: was_installed, the starting message, the call
\* of install_module
CliInstall(t, name) ==
    /\ CliReady
    /\ inst[t].pc = "idle"
    /\ \A u \in Threads : u < t => inst[u].pc # "idle"
    /\ CallsMade < MaxCalls
    /\ LET was == IsModuleInstalled(modules, fs, registry, name)
       IN /\ inst' = [inst EXCEPT ![t] = [IdleCall EXCEPT
                         !.pc = "lookup", !.name = name, !.src = "cli", !.was = was]]
          /\ cli' = [IdleCli EXCEPT !.pc = "install", !.cmd = "install", !.name = name,
                                    !.was = was, !.runs = cli.runs + 1,
                                    !.out = <<Msg(StartMessage(was), name)>>]
    /\ UNCHANGED <<modules, fs, registry, launch, launches, cards, refreshDue>>
    /\ UNCHANGED <<status, afterQ, config, query>>

\* a step of install_module under main(); when it returns main prints the
\* result and returns
CliInstallStep(t) ==
    /\ cli.pc = "install"
    /\ inst[t].src = "cli"
    /\ Install(t)
    /\ cli' = IF inst'[t].pc = "done"
              THEN [cli EXCEPT !.pc = "exited",
                               !.out = Append(@, Msg(EndMessageCli(cli.was, inst'[t].ret),
                                                     cli.name)),
                               !.exit = CliExit(inst'[t].ret)]
              ELSE cli
    /\ UNCHANGED <<status, afterQ, config, query>>

\* main() with --launch name: not installed ends with a message and no call
\* of launch_module; installed prints "Launching" and calls launch_module
CliLaunch(name) ==
    /\ CliReady
    /\ IF ~IsModuleInstalled(modules, fs, registry, name)
       THEN /\ cli' = [IdleCli EXCEPT !.pc = "exited", !.cmd = "launch", !.name = name,
                                      !.runs = cli.runs + 1,
                                      !.out = <<Msg("is not installed", name)>>,
                                      !.exit = CliExit("False")]
            /\ UNCHANGED managerVars
       ELSE /\ StartLaunch(name, "cli")
            /\ cli' = [IdleCli EXCEPT !.pc = "launch", !.cmd = "launch", !.name = name,
                                      !.was = TRUE, !.runs = cli.runs + 1, !.calls = 1,
                                      !.out = <<Msg("Launching", name)>>]
    /\ UNCHANGED <<status, afterQ, config, query>>

\* a step of launch_module under main(); when it returns main prints the
\* result and returns
CliLaunchStep ==
    /\ cli.pc = "launch"
    /\ Launch
    /\ cli' = IF launch'.pc = "done"
              THEN [cli EXCEPT !.pc = "exited",
                               !.out = Append(@, Msg(LaunchMessage(launch'.ret), cli.name)),
                               !.exit = CliExit(launch'.ret)]
              ELSE cli
    /\ UNCHANGED <<status, afterQ, config, query>>

NextCli ==
    \/ \E t \in Threads, name \in Ids : CliInstall(t, name)
    \/ \E t \in Threads : CliInstallStep(t)
    \/ \E name \in Ids : CliLaunch(name)
    \/ CliLaunchStep

\* runs of main() with --install and --launch, one after the other
SpecCli == Init /\ [][NextCli]_vars

(* ----------------------- installs and updates -------------------------- *)

\* installs and updates from the window and from the terminal, in turns, on
\* the same modules_dir
NextInstalls ==
    \/ \E t \in Threads, name \in DOMAIN modules : GuiStartInstall(t, name)
    \/ \E t \in Threads : GuiInstall(t)
    \/ RunAfter
    \/ GuiRefreshUi
    \/ \E t \in Threads, name \in DOMAIN modules : CliInstall(t, name)
    \/ \E t \in Threads : CliInstallStep(t)

SpecInstalls == InitGui /\ [][NextInstalls]_vars

(* ------------------- configuration and direct queries ------------------ *)

\* descriptors of the persisted-flag format: an "installed" key beside the
\* others, or alone
FlagOnDesc == [keys |-> {"installed"}, entry_point |-> "", installed |-> TRUE]

FlagOffDesc == [keys |-> {"installed"}, entry_point |-> "", installed |-> FALSE]

FullFlagOnDesc == [keys |-> {"url", "branch", "entry_point", "installed"},
                   entry_point |-> "pkg.main", installed |-> TRUE]

FullFlagOffDesc == [keys |-> {"url", "branch", "entry_point", "installed"},
                    entry_point |-> "pkg.main", installed |-> FALSE]

FlagShapes == {FlagOnDesc, FlagOffDesc, FullFlagOnDesc, FullFlagOffDesc}

\* the key and the descriptor of the hardcoded fallback catalog
DefaultId == "Ageing Analysis"

DefaultDesc ==
    [keys |-> {"url", "branch", "description", "entry_point", "version", "icon"},
     entry_point |-> "ageing_analysis.main",
     url |-> "https://github.com/mateuszpolis/AgeingAnalysis.git"]

DefaultCatalog == [x \in {DefaultId} |-> DefaultDesc]

\* the id the tests, the examples and the help text of main() use
DocumentedId == "AgeingAnalysis"

ApiIds == Ids \cup {DefaultId, DocumentedId}

\* the catalog load_modules_config leaves: the packaged modules.json when it
\* can be read and parsed, the hardcoded default otherwise
LoadedCatalog(cfg) == IF cfg.readable THEN cfg.packaged ELSE DefaultCatalog

\* direct calls made so far
ApiCalls == config.loads + config.saves + query.asked

\* manager.load_modules_config()
LoadModulesConfig ==
    /\ ApiCalls < MaxCalls
    /\ modules' = LoadedCatalog(config)
    /\ config' = [config EXCEPT !.loads = @ + 1]
    /\ UNCHANGED <<fs, registry, inst, launch, launches, cards, refreshDue>>
    /\ UNCHANGED <<status, afterQ, cli, query>>

\* faulty variant of SavedFile: the catalog is written to modules_config
SavedFileWritten(file) == TRUE

\* whether modules_config exists after save_modules_config: the body is `pass`
SavedFile(file) == file

\* manager.save_modules_config()
SaveModulesConfig ==
    /\ ApiCalls < MaxCalls
    /\ config' = [config EXCEPT !.saves = @ + 1, !.file = SavedFile(config.file)]
    /\ UNCHANGED managerVars
    /\ UNCHANGED <<status, afterQ, cli, query>>

\* manager.is_module_installed(name)
QueryInstalled(name) ==
    /\ ApiCalls < MaxCalls
    /\ query' = [name |-> name, asked |-> query.asked + 1,
                 result |-> IsModuleInstalled(modules, fs, registry, name)]
    /\ UNCHANGED managerVars
    /\ UNCHANGED <<status, afterQ, cli, config>>

\* the catalogs a caller may hold: the loaded one, or one it assigned to
\* manager.modules, with and without the persisted flag
ApiCatalogs ==
    {[x \in CatalogIds |-> IF x = "A" THEN d ELSE FullDesc] :
        d \in FlagShapes \cup {FullDesc, NoEntryDesc, EmptyDesc}}

ApiTrees ==
    {[p \in ApiIds \cup OtherPaths |-> IF p \in S THEN StaleDir(p) ELSE NoDir] :
        S \in {{}, {"A", "Z", DefaultId}}}

\* a manager after construction, used directly (no window, no main())
InitApi ==
    /\ config \in [readable : BOOLEAN, packaged : {[x \in CatalogIds |-> FullDesc]},
                   file : BOOLEAN, loads : {0}, saves : {0}]
    /\ modules \in ApiCatalogs \cup {LoadedCatalog(config)}
    /\ fs \in ApiTrees
    /\ registry = {p \in CatalogIds : fs[p].exists}
    /\ inst = [t \in Threads |-> IdleCall]
    /\ launch = IdleLaunch
    /\ launches = 0
    /\ cards = <<>>
    /\ refreshDue = 0
    /\ status = Ready
    /\ afterQ = <<>>
    /\ cli = IdleCli
    /\ query = NoQuery

NextApi ==
    \/ LoadModulesConfig
    \/ SaveModulesConfig
    \/ \E name \in ApiIds : QueryInstalled(name)

SpecApi == InitApi /\ [][NextApi]_vars

(* ------------------------------- claims -------------------------------- *)

\* is_module_installed(name) in the current state
Installed(name) == IsModuleInstalled(modules, fs, registry, name)

\* call t has returned, no call for the same id overlapped it and none began
\* after it: the tree of its id is as the call left it
Quiet(t) ==
    /\ inst[t].pc = "done"
    /\ ~inst[t].concur
    /\ \A u \in Threads : u > t => inst[u].name # inst[t].name

\* C1: whenever install_module(X) returns true for a catalog module X, an
\* immediately following is_module_installed(X) is true, modules_root/X
\* exists and holds pyproject.toml or setup.py, for every descriptor shape.
C1_SuccessfulInstallIsInstalled ==
    \A t \in Threads :
        (Quiet(t) /\ inst[t].ret = "True") =>
            /\ Installed(inst[t].name)
            /\ fs[ModulePath(inst[t].name)].exists
            /\ HasBuildDescriptor(fs[ModulePath(inst[t].name)])

\* C2: for an id outside the catalog, is_module_installed is false and
\* launch_module returns exactly (false, "Module not installed").
C2_UnknownIdNotInstalledMessage ==
    \A name \in Ids \ DOMAIN modules :
        /\ ~Installed(name)
        /\ (launch.pc = "done" /\ launch.name = name) =>
               (launch.ret = "False" /\ launch.msg = "Module not installed")

\* C3: a launch_module(X) that finds is_module_installed(X) false (X outside
\* the catalog, directory missing, or entry point empty) makes no call of
\* subprocess.Popen, starts no process, and returns a pair whose first
\* component is false.
C3_NoSpawnWhenNotInstalled ==
    (launch.pc \notin {"idle", "check"} /\ ~launch.checked) =>
        /\ launch.pc = "done"
        /\ launch.popen = 0
        /\ launch.started = 0
        /\ launch.ret = "False"

\* C3 witness: a finished launch of a catalog module whose directory exists
\* but whose entry point is missing or empty
C3_Witness ==
    /\ launch.pc = "done"
    /\ launch.name \in DOMAIN modules
    /\ fs[ModulePath(launch.name)].exists
    /\ ~launch.checked
    /\ launch.ret = "False"

\* C4: an install_module(X) that starts with X not installed and fails at any
\* stage returns false and leaves is_module_installed(X) false.
C4_FailedInstallStaysNotInstalled ==
    \A t \in Threads :
        (Quiet(t) /\ inst[t].name \in DOMAIN modules /\ ~inst[t].was
                  /\ inst[t].ret # "True") =>
            (inst[t].ret = "False" /\ ~Installed(inst[t].name))

\* two calls for the same id, both successful, the first returned before the
\* second began, and nothing for that id ran since
InSequence(u, t) ==
    /\ u < t
    /\ inst[u].name = inst[t].name
    /\ inst[u].pc = "done" /\ inst[u].ret = "True"
    /\ Quiet(t) /\ inst[t].ret = "True"

\* C5: after two successful install_module(X) calls in sequence, modules_root
\* holds one directory for X, its content is the second clone's, and no other
\* path under modules_root holds a copy of X.
C5_SecondInstallReplacesFirst ==
    \A u, t \in Threads :
        InSequence(u, t) =>
            /\ fs[ModulePath(inst[t].name)] # NoDir
            /\ fs[ModulePath(inst[t].name)].repo = inst[t].name
            /\ fs[ModulePath(inst[t].name)].gen = t
            /\ \A p \in Paths \ {ModulePath(inst[t].name)} :
                   ~(fs[p].exists /\ fs[p].repo = inst[t].name)

\* C5 witness: two successful installs of the same module in sequence
C5_Witness == \E u, t \in Threads : InSequence(u, t) /\ inst[u].gen = u

\* C6: update is not transactional. Once install_module(X) has removed the
\* directory of X, that directory is never there again; and an update (X was
\* installed) whose clone fails leaving nothing returns false with
\* modules_root/X absent and is_module_installed(X) false.
C6_FailedUpdateRegresses ==
    \A t \in Threads :
        /\ inst[t].old # -1 =>
               ~(fs[ModulePath(inst[t].name)].exists
                 /\ fs[ModulePath(inst[t].name)].gen = inst[t].old)
        /\ (Quiet(t) /\ inst[t].was /\ inst[t].exc = "GitCommandError"
                     /\ inst[t].gen = -1) =>
               /\ inst[t].ret = "False"
               /\ ~fs[ModulePath(inst[t].name)].exists
               /\ ~Installed(inst[t].name)

\* C6 witness: an update of an installed module whose clone failed: the call
\* returned false, the directory is gone, the module is not installed
C6_Witness ==
    \E t \in Threads :
        /\ Quiet(t) /\ inst[t].was /\ inst[t].old # -1
        /\ inst[t].exc = "GitCommandError" /\ inst[t].gen = -1
        /\ inst[t].ret = "False"
        /\ ~fs[ModulePath(inst[t].name)].exists
        /\ ~Installed(inst[t].name)

\* C7: whatever fails in the clone, installer, import or spawn collaborators,
\* and for ids in the catalog or not, install_module returns a boolean,
\* is_module_installed returns a boolean and launch_module returns a
\* (boolean, message) pair: no exception leaves the manager.
C7_NothingPropagates ==
    /\ \A t \in Threads :
           /\ inst[t].ret \in {"none", "True", "False"}
           /\ inst[t].pc = "done" => inst[t].ret \in {"True", "False"}
    /\ \A name \in Ids : Installed(name) \in BOOLEAN
    /\ launch.ret \in {"none", "True", "False"}
    /\ launch.pc = "done" => (launch.ret \in {"True", "False"} /\ launch.msg # "none")

\* C7 witness: an install_module call that ended in an exception of the
\* installer, and a launch_module call that ended in an exception
C7_Witness ==
    /\ \E t \in Threads : inst[t].pc = "done" /\ inst[t].exc = "CalledProcessError"
    /\ launch.pc = "done" /\ launch.msg = "Error launching module"

\* the entry point of a catalog module resolves: it is not empty and the
\* installer registered its package
Resolvable(name) == GetEntryPoint(modules[name]) # "" /\ name \in registry

\* C8: is_module_installed(X) is true exactly when X is in the catalog, the
\* directory modules_root/X exists and the entry point of X is resolvable.
C8_InstalledIffResolvable ==
    \A name \in Ids :
        Installed(name) <=>
            /\ name \in DOMAIN modules
            /\ fs[ModulePath(name)].exists
            /\ Resolvable(name)

\* C9: no two install threads started from the GUI work on the same module
\* at the same time.
C9_OneInstallPerModule ==
    \A t, u \in Threads :
        (t # u /\ Active(t) /\ Active(u) /\ inst[t].src = "gui" /\ inst[u].src = "gui")
            => inst[t].name # inst[u].name

\* what a call for a catalog id leaves when nothing else works on that id:
\* its own clone, or no directory; true only with a build descriptor and a
\* registered package
SequentialOutcome(t) ==
    IF inst[t].gen = t
    THEN /\ fs[ModulePath(inst[t].name)] # NoDir
         /\ fs[ModulePath(inst[t].name)].gen = t
         /\ fs[ModulePath(inst[t].name)].repo = inst[t].name
         /\ inst[t].ret = "True" =>
                (HasBuildDescriptor(fs[ModulePath(inst[t].name)])
                 /\ inst[t].name \in registry)
         /\ ~HasBuildDescriptor(fs[ModulePath(inst[t].name)]) => inst[t].ret = "False"
    ELSE /\ ~fs[ModulePath(inst[t].name)].exists
         /\ inst[t].ret = "False"
         /\ inst[t].exc \in {"KeyError", "GitCommandError"}

\* C10: install_module calls for different ids do not disturb each other: a
\* step changes the directory of an id only if it is a step of a call for
\* that id, and a call that no call for the same id overlapped ends as it
\* would alone, whatever calls for other ids ran meanwhile.
C10_DisjointInstallsAreSafe ==
    [][ /\ \A p \in Paths :
               fs'[p] # fs[p] =>
                   \E t \in Threads : inst[t].name = p /\ inst'[t] # inst[t]
        /\ \A t \in Threads :
               (Quiet(t) /\ inst[t].name \in DOMAIN modules)' => SequentialOutcome(t)'
      ]_vars

\* C10 witness: two calls for different catalog ids in flight together, both
\* past their clone
C10_Witness ==
    \E t, u \in Threads :
        /\ inst[t].name # inst[u].name
        /\ inst[t].pc = "pip" /\ inst[u].pc = "pip"

\* the steps of install_module in the order of the code: the step that may
\* follow each step (an exception ends the call from any step)
StepOrder ==
    [idle |-> {"lookup"}, lookup |-> {"rmtree", "clone", "done"},
     rmtree |-> {"clone", "done"}, clone |-> {"check", "done"},
     check |-> {"pip", "done"}, pip |-> {"done"}, done |-> {}]

\* no other call for the id of call t runs beside it
Alone(t) ==
    /\ ~inst[t].concur
    /\ \A u \in Threads : u > t => inst[u].name # inst[t].name

\* C18: within one install_module(X) call the steps come in the order remove
\* (if the directory is there), clone, detect build descriptor, installer. The
\* installer is entered at most once, only after the clone succeeded and only
\* when the tree holds pyproject.toml or setup.py; a tree with neither makes
\* the call return false without the installer; only the installer registers.
C18_InstallStepsInOrder ==
    [][ \A t \in Threads :
          LET p == ModulePath(inst[t].name) IN
          /\ inst'[t].pc # inst[t].pc => inst'[t].pc \in StepOrder[inst[t].pc]
          /\ (inst[t].pc = "lookup" /\ inst'[t].pc = "clone") => ~fs[p].exists
          /\ (inst[t].pc = "rmtree" /\ inst'[t].pc = "clone") => ~fs'[p].exists
          /\ (inst[t].pc = "clone" /\ inst'[t].pc = "check") =>
                 (fs'[p].exists /\ fs'[p].gen = t)
          /\ (inst[t].pc # "pip" /\ inst'[t].pc = "pip") =>
                 /\ inst[t].gen = t
                 /\ fs[p].exists
                 /\ fs[p].files \cap BuildFiles # {}
                 /\ Alone(t) => fs[p].gen = t
          /\ (inst[t].pc = "check" /\ fs[p].files \cap BuildFiles = {}) =>
                 (inst'[t].pc \in {"check", "done"}
                  /\ (inst'[t].pc = "done" => inst'[t].ret = "False"))
          /\ (inst'[t].ret = "True" /\ inst[t].ret # "True") => inst[t].pc = "pip"
          /\ (registry' # registry) =>
                 \E u \in Threads : inst[u].pc = "pip" /\ inst'[u].ret = "True"
      ]_vars

\* C18 witness: a call removed the old tree, cloned a tree with neither
\* pyproject.toml nor setup.py, and returned false at the detection
C18_Witness ==
    \E t \in Threads :
        /\ inst[t].pc = "done" /\ inst[t].old # -1 /\ inst[t].gen = t
        /\ inst[t].exc = "FileNotFoundError" /\ inst[t].ret = "False"
        /\ fs[ModulePath(inst[t].name)].files = {}
        /\ inst[t].name \notin registry

\* C19: a launch_module(X) that found X installed first spawns the entry point
\* as a module; it reaches the fallback only when that spawn raised; it starts
\* at most one process; it returns (true, "Module launched successfully")
\* exactly when one spawn succeeded, and otherwise false with a message and
\* no process started.
C19_OneProcessPerLaunch ==
    (launch.pc \notin {"idle", "check"} /\ launch.checked) =>
        /\ launch.started \in {0, 1}
        /\ launch.started <= launch.popen /\ launch.popen <= 2
        /\ launch.pc = "spawn" => launch.popen = 0
        /\ launch.pc = "fallback" => (launch.popen = 1 /\ launch.started = 0)
        /\ launch.started = 1 => launch.pc = "done"
        /\ launch.pc = "done" =>
               /\ launch.popen >= 1
               /\ launch.ret = "True" <=> launch.started = 1
               /\ launch.ret = "True" => launch.msg = "Module launched successfully"
               /\ launch.ret # "True" =>
                      (launch.ret = "False" /\ launch.started = 0
                       /\ launch.msg \notin {"none", "Module launched successfully"})

\* C19 witness: the first spawn raised and the fallback started the process
C19_Witness ==
    /\ launch.pc = "done" /\ launch.checked
    /\ launch.popen = 2 /\ launch.started = 1
    /\ launch.ret = "True" /\ launch.msg = "Module launched successfully"

\* C12: after construction no step (of install_module, launch_module, a GUI
\* install, launch or refresh_ui) changes the catalog, and every removal or
\* creation under modules_root is the rmtree or the clone of a running
\* install_module call, on the directory of that call's id.
C12_CatalogAndTreeOwnership ==
    [][ /\ modules' = modules
        /\ \A p \in Paths :
               fs'[p] # fs[p] =>
                   \E t \in Threads :
                       /\ inst[t].pc \in {"rmtree", "clone"}
                       /\ inst'[t].pc # inst[t].pc
                       /\ ModulePath(inst[t].name) = p
        /\ (launch' # launch \/ cards' # cards \/ refreshDue' < refreshDue) => fs' = fs
      ]_vars

\* C12 witness: a GUI install removed a tree and wrote its clone, the refresh
\* it scheduled has run, and a launch has finished
C12_Witness ==
    /\ \E t \in Threads :
           /\ inst[t].pc = "done" /\ inst[t].src = "gui" /\ inst[t].ret = "True"
           /\ inst[t].old # -1 /\ inst[t].gen = t
    /\ refreshDue = 0
    /\ launch.pc = "done" /\ launch.src = "gui"

\* C11: after every GUI install or update has completed, succeeded or failed,
\* and the re-render it triggered has run, each card shows is_module_installed
\* of its module (also after a failed update that removed the directory).
C11_CardsFollowEveryInstall ==
    ((\A t \in Threads : ~Active(t)) /\ refreshDue = 0) =>
        cards = RenderCards(modules, fs, registry)

\* the launch the window started is inside its manager call
GuiLaunching == launch.src = "gui" /\ launch.pc \in {"check", "spawn", "fallback"}

\* C17: a GUI launch calls ModuleManager.launch_module once, with the name
\* of the card, on the UI thread: the status is "Launching <name>..." from
\* before the manager call until it returns, then the success or failure
\* message; while the call runs no thread is started and no callback runs.
C17_GuiLaunchIsSynchronous ==
    [][ /\ (launch'.src = "gui" /\ launch'.pc = "check" /\ launch.pc # "check") =>
               /\ launches' = launches + 1
               /\ launch'.name \in DOMAIN cards
               /\ status' = Msg("Launching", launch'.name)
               /\ inst' = inst
        /\ GuiLaunching =>
               /\ status = Msg("Launching", launch.name)
               /\ launches' = launches
               /\ launch'.name = launch.name
               /\ \A t \in Threads : inst[t].pc = "idle" => inst'[t].pc = "idle"
               /\ afterQ' # afterQ => Len(afterQ') = Len(afterQ) + 1
               /\ (cards' = cards /\ refreshDue' >= refreshDue)
               /\ status' = IF launch'.pc = "done"
                            THEN Msg(LaunchMessage(launch'.ret), launch.name)
                            ELSE Msg("Launching", launch.name)
      ]_vars

\* C17 witness: a GUI launch returned and set its terminal status while a
\* status posted by an install thread was still waiting for the event loop
C17_Witness ==
    /\ launch.src = "gui" /\ launch.pc = "done" /\ launch.ret = "True"
    /\ status = Msg("launched", launch.name)
    /\ afterQ # <<>>
    /\ launches = 1

\* C13: --install MODULE and --launch MODULE end with exit status 0 in
\* every outcome of the manager operation; --launch MODULE for a module that
\* is not installed prints an error and returns with no call of
\* launch_module and no process spawned.
C13_CliExitsZero ==
    [][ /\ cli'.pc = "exited" => cli'.exit = 0
        /\ (cli'.runs = cli.runs + 1 /\ cli'.cmd = "launch" /\ ~Installed(cli'.name)) =>
               /\ cli'.pc = "exited"
               /\ cli'.out = <<Msg("is not installed", cli'.name)>>
               /\ cli'.calls = 0
               /\ launches' = launches
               /\ launch' = launch
        /\ (cli'.runs = cli.runs + 1 /\ cli'.cmd = "launch" /\ Installed(cli'.name)) =>
               (launches' = launches + 1 /\ launch'.name = cli'.name)
      ]_vars

\* C13 witness: --install ended after the installer failed, then --launch of
\* the module, still not installed, ended with the error and no launch call
C13_Witness ==
    /\ \E t \in Threads :
           /\ inst[t].src = "cli" /\ inst[t].exc = "CalledProcessError"
           /\ inst[t].ret = "False" /\ inst[t].name = cli.name
    /\ cli.pc = "exited" /\ cli.cmd = "launch" /\ cli.exit = 0
    /\ cli.out = <<Msg("is not installed", cli.name)>>
    /\ launches = 0 /\ launch = IdleLaunch

\* the last element of a sequence that is not empty
Last(q) == q[Len(q)]

\* C20: update is install. Whether or not X was installed before, a call of
\* install_module(X) removes the directory exactly when it is there, clones
\* into an absent directory, and never consults the earlier state; the only
\* difference is the message, which the window and main() choose from
\* is_module_installed(X) read before the call: Updating/updated when true,
\* Installing/installed when false.
C20_UpdateIsInstall ==
    [][ \A t \in Threads :
          LET name == inst'[t].name
              p == ModulePath(name)
              was == inst'[t].was
              begun == inst[t].pc = "idle" /\ inst'[t].pc # "idle"
              ended == inst[t].pc \notin {"idle", "done"} /\ inst'[t].pc = "done"
          IN
          /\ begun =>
                 /\ was = Installed(name)
                 /\ inst'[t].src = "gui" =>
                        afterQ' = Append(afterQ,
                                         Msg(IF was THEN "Updating" ELSE "Installing", name))
                 /\ inst'[t].src = "cli" =>
                        cli'.out = <<Msg(IF was THEN "Updating" ELSE "Installing", name)>>
          /\ ~begun => inst'[t].was = inst[t].was
          /\ (inst[t].pc = "lookup" /\ inst'[t].pc # "lookup") =>
                 (inst'[t].pc = "rmtree" <=> fs[p].exists)
          /\ (inst[t].pc = "rmtree" /\ inst'[t].pc = "clone") => ~fs'[p].exists
          /\ (inst[t].pc = "clone" /\ inst'[t].pc # "clone" /\ fs'[p] # fs[p]) =>
                 (~fs[p].exists /\ fs'[p].gen = t)
          /\ (ended /\ inst'[t].ret = "True") =>
                 /\ inst'[t].src = "gui" =>
                        (Len(afterQ') = Len(afterQ) + 1 /\
                         Last(afterQ') = Msg(IF was THEN "updated" ELSE "installed", name))
                 /\ inst'[t].src = "cli" =>
                        Last(cli'.out) = Msg(IF was THEN "updated" ELSE "installed", name)
          /\ (ended /\ inst'[t].ret = "False") =>
                 /\ inst'[t].src = "gui" =>
                        (Len(afterQ') = Len(afterQ) + 1 /\
                         Last(afterQ') = Msg("Failed to install", name))
                 /\ inst'[t].src = "cli" =>
                        Last(cli'.out) =
                            Msg(IF was THEN "Failed to update" ELSE "Failed to install", name)
      ]_vars

\* C20 witness: a first install from the window (the module was not
\* installed, nothing to remove) and then an update from the terminal (it
\* was installed, the first clone was removed), both successful
C20_Witness ==
    \E t, u \in Threads :
        /\ inst[t].src = "gui" /\ ~inst[t].was /\ inst[t].old = -1
        /\ inst[t].pc = "done" /\ inst[t].ret = "True"
        /\ inst[u].src = "cli" /\ inst[u].was /\ inst[u].old = t
        /\ inst[u].pc = "done" /\ inst[u].ret = "True"
        /\ inst[u].name = inst[t].name
        /\ cli.out = <<Msg("Updating", cli.name), Msg("updated", cli.name)>>

C15_DefaultCatalogSaved ==
    [][ (config'.loads = config.loads + 1 /\ ~config.readable /\ ~config.file) =>
            /\ DocumentedId \in DOMAIN modules'
            /\ modules'[DocumentedId].url = "https://github.com/mateuszpolis/AgeingAnalysis.git"
            /\ config'.saves = config.saves + 1
      ]_vars

C21_UnknownIdInstallTouchesNothing ==
    \A t \in Threads :
        (inst[t].pc # "idle" /\ inst[t].name \notin DOMAIN modules) =>
            /\ inst[t].pc \in {"lookup", "done"}
            /\ inst[t].old = -1
            /\ inst[t].gen = -1
            /\ fs[ModulePath(inst[t].name)] \in {NoDir, StaleDir(inst[t].name)}
            /\ inst[t].name \notin registry
            /\ inst[t].pc = "done" =>
                   (inst[t].ret = "False" /\ inst[t].exc = "KeyError")

\* C21 witness: install_module of an id outside the catalog returned false
\* and the directory of that id, left by an earlier session, is still there
C21_Witness ==
    \E t \in Threads :
        /\ inst[t].pc = "done" /\ inst[t].name \notin DOMAIN modules
        /\ inst[t].ret = "False" /\ inst[t].exc = "KeyError"
        /\ fs[ModulePath(inst[t].name)] = StaleDir(inst[t].name)

\* C22: whenever launch_module(X) spawns a process, the directory
\* modules_root/X exists at the moment of the spawn, in every interleaving
\* with an install thread for the same X: no removal of the directory comes
\* between the installed check of the launch and its spawn.
C22_DirectoryThereAtSpawn ==
    (launch.started >= 1 /\ launch.checked) => launch.dirAtSpawn

====
